---- MODULE Spec2Model ----
(***************************************************************************)
(* GeminiService (gemini_service_example.py): dual-model price             *)
(* verification with a response parser, a TTL cache and a bounded retry    *)
(* loop with exponential backoff.                                          *)
(*                                                                         *)
(* Conventions.  Python None is the empty tuple and a present value x is   *)
(* <<x>>.  A float is an integer number of hundredths (0.8 is 80), and the *)
(* IEEE not-a-number float() can return is the value NaN, for which every  *)
(* ordered comparison and == are false.  Prices are whole amounts.  Time   *)
(* is in seconds.  A raw model output is described by what the parser can  *)
(* see of it (its form, the keys present and the kind of each value).  A   *)
(* string whose characters matter is the sequence of its characters.       *)
(* direct holds the argument and the outcome of a function that is called  *)
(* on its own, outside verify_price.                                       *)
(***************************************************************************)
EXTENDS Integers, Sequences, FiniteSets, TLC

VARIABLES verification_cache, now, frame, abandoned, direct

vars == <<verification_cache, now, frame, abandoned, direct>>

----------------------------------------------------------------------------
(* Bounds of the model *)

MaxRetryCount == 2
MaxTime == 180
cache_timeout == 120

----------------------------------------------------------------------------
(* Values *)

None == <<>>
Some(x) == <<x>>
Val(o) == o[1]

NaN == 9999

FLt(a, b) == a # NaN /\ b # NaN /\ a < b
FGt(a, b) == a # NaN /\ b # NaN /\ a > b
FGe(a, b) == a # NaN /\ b # NaN /\ a >= b
FEq(a, b) == a # NaN /\ b # NaN /\ a = b

Min(a, b) == IF a < b THEN a ELSE b

RECURSIVE Pow2(_)
Pow2(n) == IF n = 0 THEN 1 ELSE 2 * Pow2(n - 1)

Msg(text, detail) == [text |-> text, detail |-> detail]

EmptyDict == {}

NoDirect == [fn |-> "none"]

----------------------------------------------------------------------------
(* Detail cleaner.  The characters the model writes: letters stand for     *)
(* [a-zA-Z0-9], the blank for \s, and any other character is special.      *)

AlnumChars ==
    {"a", "b", "d", "e", "i", "l", "o", "s", "t", "v", "x", "N"}
WhitespaceChars == {" "}

IsSpecial(ch) == ch \notin AlnumChars \cup WhitespaceChars

Placeholder ==
    <<"N", "o", " ", "d", "e", "t", "a", "i", "l", "s", " ",
      "a", "v", "a", "i", "l", "a", "b", "l", "e">>

truncate_at == 50

(* a string of n letters *)
Pad(n) == [i \in 1 .. n |-> "x"]

(* variant: the string is not truncated *)
Truncate_none(str) == str

(* plan_details[:50] *)
Truncate(str) == SubSeq(str, 1, Min(Len(str), truncate_at))

(* re.sub(r'[^a-zA-Z0-9\s](?=[^a-zA-Z0-9\s])', '', cleaned): a special     *)
(* character is removed when the character after it is special             *)
RECURSIVE RemoveFrom(_, _)
RemoveFrom(str, i) ==
    IF i > Len(str) THEN <<>>
    ELSE (IF IsSpecial(str[i]) /\ i < Len(str) /\ IsSpecial(str[i + 1])
          THEN <<>> ELSE <<str[i]>>) \o RemoveFrom(str, i + 1)

(* variant: a special character is removed when the character before it   *)
(* is special                                                              *)
RECURSIVE RemoveFrom_keep_first(_, _)
RemoveFrom_keep_first(str, i) ==
    IF i > Len(str) THEN <<>>
    ELSE (IF IsSpecial(str[i]) /\ i > 1 /\ IsSpecial(str[i - 1])
          THEN <<>> ELSE <<str[i]>>) \o RemoveFrom_keep_first(str, i + 1)

RemoveConsecutive_keep_first(str) == RemoveFrom_keep_first(str, 1)

RemoveConsecutive(str) == RemoveFrom(str, 1)

RECURSIVE LStrip(_)
LStrip(str) ==
    IF str # <<>> /\ str[1] \in WhitespaceChars THEN LStrip(Tail(str)) ELSE str

RECURSIVE RStrip(_)
RStrip(str) ==
    IF str # <<>> /\ str[Len(str)] \in WhitespaceChars
    THEN RStrip(SubSeq(str, 1, Len(str) - 1)) ELSE str

Strip(str) == LStrip(RStrip(str))

(* plan_details is None or Some(string) *)
clean_plan_details(plan_details) ==
    IF plan_details = None \/ Val(plan_details) = <<>>
    THEN Placeholder
    ELSE Strip(RemoveConsecutive(Truncate(Val(plan_details))))

----------------------------------------------------------------------------
(* Raw model outputs.  Of the strings the model writes none reads as a     *)
(* number, so float() of a string is a ValueError.                         *)

Num(n) == [t |-> "num", v |-> n]
Text(str) == [t |-> "str", s |-> str]
JNaN == [t |-> "nan", v |-> 0]
JNull == [t |-> "null", v |-> 0]
JBadStr == Text(<<"a">>)
JBadType == [t |-> "list", v |-> 0]

required_fields == {"price", "verified", "confidence", "match_criteria"}

RawText == [form |-> "text"]
RawNonObject == [form |-> "nonobject"]
RawBadFence == [form |-> "badfence"]
RawObject(keys, verified, confidence, price) ==
    [form |-> "object", keys |-> keys, verified |-> verified,
     confidence |-> confidence, price |-> price,
     match_criteria |-> {<<"speed_match", TRUE>>},
     plan_details |-> Text(<<"a">>),
     promotion_details |-> Text(<<"a">>),
     promo |-> JNull]

Answer(price, confidence, verified) ==
    RawObject(required_fields, verified, Num(confidence), price)

----------------------------------------------------------------------------
(* ResponseParser *)

ToFloat(x) ==
    CASE x.t = "num" -> [exc |-> "none", val |-> x.v]
      [] x.t = "nan" -> [exc |-> "none", val |-> NaN]
      [] x.t = "str" -> [exc |-> "ValueError", val |-> 0]
      [] OTHER -> [exc |-> "TypeError", val |-> 0]

FloatErrorText(x) ==
    CASE x.t = "str" -> "could not convert string to float"
      [] OTHER -> "float() argument must be a string or a real number"

(* self._clean_plan_details(data.get(key)) of a JSON value: a falsy value  *)
(* gives the placeholder, a string is cleaned, anything else cannot be     *)
(* sliced or matched and is a TypeError                                    *)
CleanField(x) ==
    CASE x.t = "null" -> [exc |-> "none", val |-> Placeholder]
      [] x.t = "str" -> [exc |-> "none", val |-> clean_plan_details(Some(x.s))]
      [] x.t = "num" /\ x.v = 0 -> [exc |-> "none", val |-> Placeholder]
      [] OTHER -> [exc |-> "TypeError", val |-> <<>>]

create_error_response(error_type, error_message, t) ==
    [verified |-> FALSE,
     confidence_score |-> 0,
     current_price |-> None,
     promo_details |-> None,
     verification_date |-> t,
     error |-> Some(error_message),
     error_type |-> Some(error_type),
     match_details |-> EmptyDict]

ProcessingError(text, t) ==
    create_error_response("PROCESSING_ERROR",
                          Msg("Failed to process response: ", {text}), t)

ValidationError(msg, t) == create_error_response("VALIDATION_ERROR", msg, t)

confidence_threshold == 80

(* variant: the demoted record also loses its confidence *)
ValidateThreshold_zeroed(result) ==
    IF result.verified /\ FLt(result.confidence_score, confidence_threshold)
    THEN [result EXCEPT !.verified = FALSE,
                        !.confidence_score = 0,
                        !.error_type = Some("LOW_CONFIDENCE"),
                        !.error = Some(Msg("Confidence score below threshold", {}))]
    ELSE result

ValidateThreshold(result) ==
    IF result.verified /\ FLt(result.confidence_score, confidence_threshold)
    THEN [result EXCEPT !.verified = FALSE,
                        !.error_type = Some("LOW_CONFIDENCE"),
                        !.error = Some(Msg("Confidence score below threshold", {}))]
    ELSE result

(* What the try block of the parser ends with: a result, or an exception   *)
(* of class exc with message text.                                         *)
Result(result) == [exc |-> "none", text |-> Msg("", {}), result |-> Some(result)]
Throw(exc, text) == [exc |-> exc, text |-> text, result |-> None]

(* result = {...}: the dict display evaluates bool(verified),              *)
(* float(confidence), float(price) in this order, then the threshold       *)
(* variant: promo_details is read from the promotion_details key *)
BuildResult_promotion(data, t) ==
    LET conf == ToFloat(data.confidence)
        price == IF data.price.t = "null"
                 THEN [exc |-> "none", val |-> 0]
                 ELSE ToFloat(data.price)
    IN  CASE conf.exc # "none" ->
               Throw(conf.exc, Msg(FloatErrorText(data.confidence), {}))
          [] price.exc # "none" ->
               Throw(price.exc, Msg(FloatErrorText(data.price), {}))
          [] OTHER ->
               Result(ValidateThreshold(
                 [verification_date |-> t,
                  verified |-> data.verified,
                  confidence_score |-> conf.val,
                  current_price |-> IF data.price.t = "null" THEN None
                                    ELSE Some(price.val),
                  promo_details |-> IF data.promotion_details.t = "null"
                                    THEN None
                                    ELSE Some(data.promotion_details),
                  plan_details |-> Some(CleanField(data.plan_details).val),
                  error |-> None,
                  error_type |-> None,
                  match_details |-> data.match_criteria]))

BuildResult(data, t) ==
    LET conf == ToFloat(data.confidence)
        price == IF data.price.t = "null"
                 THEN [exc |-> "none", val |-> 0]
                 ELSE ToFloat(data.price)
    IN  CASE conf.exc # "none" ->
               Throw(conf.exc, Msg(FloatErrorText(data.confidence), {}))
          [] price.exc # "none" ->
               Throw(price.exc, Msg(FloatErrorText(data.price), {}))
          [] OTHER ->
               Result(ValidateThreshold(
                 [verification_date |-> t,
                  verified |-> data.verified,
                  confidence_score |-> conf.val,
                  current_price |-> IF data.price.t = "null" THEN None
                                    ELSE Some(price.val),
                  promo_details |-> IF data.promo.t = "null" THEN None
                                    ELSE Some(data.promo),
                  plan_details |-> Some(CleanField(data.plan_details).val),
                  error |-> None,
                  error_type |-> None,
                  match_details |-> data.match_criteria]))

(* the try block, lines 427-522 *)
ParseBody(response_text, t) ==
    CASE response_text.form = "badfence" ->
           Throw("IndexError", Msg("list index out of range", {}))
      [] response_text.form = "text" ->
           Throw("JSONDecodeError", Msg("Expecting value", {}))
      [] response_text.form = "nonobject" ->
           Throw("AttributeError", Msg("object has no attribute 'get'", {}))
      [] OTHER ->
           LET missing_fields == required_fields \ response_text.keys
           IN  CASE CleanField(response_text.plan_details).exc # "none" ->
                      Throw("TypeError", Msg("object is not subscriptable", {}))
                 [] CleanField(response_text.promotion_details).exc # "none" ->
                      Throw("TypeError", Msg("object is not subscriptable", {}))
                 [] missing_fields # {} ->
                      Throw("ValueError",
                            Msg("Missing required fields: ", missing_fields))
                 [] OTHER -> BuildResult(response_text, t)

(* variant: the handlers stop at ValueError, there is no except Exception *)
ParseHandlers_no_catch_all(body, t) ==
    CASE body.exc = "JSONDecodeError" ->
           [kind |-> "return", exc |-> "", value |->
              Some(create_error_response("INVALID_JSON",
                     Msg("Failed to parse JSON response", {}), t))]
      [] body.exc = "ValueError" ->
           [kind |-> "return", exc |-> "",
            value |-> Some(ValidationError(body.text, t))]
      [] OTHER -> [kind |-> "raise", exc |-> body.exc, value |-> None]

(* except json.JSONDecodeError / except ValueError / except Exception *)
ParseHandlers(body, t) ==
    CASE body.exc = "JSONDecodeError" ->
           [kind |-> "return", exc |-> "", value |->
              Some(create_error_response("INVALID_JSON",
                     Msg("Failed to parse JSON response", {}), t))]
      [] body.exc = "ValueError" ->
           [kind |-> "return", exc |-> "",
            value |-> Some(ValidationError(body.text, t))]
      [] OTHER ->
           [kind |-> "return", exc |-> "",
            value |-> Some(create_error_response("PROCESSING_ERROR",
                        [text |-> "Failed to process response: ",
                         detail |-> {body.text.text} \cup body.text.detail], t))]

(* what a call of the parser ends with: a returned record or an exception *)
ParseOutcome(response_text, t) ==
    LET body == ParseBody(response_text, t)
    IN  IF body.exc = "none"
        THEN [kind |-> "return", exc |-> "", value |-> body.result]
        ELSE ParseHandlers(body, t)

parse_verification_response(response_text, t) ==
    Val(ParseOutcome(response_text, t).value)

----------------------------------------------------------------------------
(* ResultCache *)

generate_cache_key(provider_url, plan_details) ==
    provider_url \o "_" \o plan_details.providers_plan_name
                 \o "_" \o plan_details.download_speed
                 \o "_" \o plan_details.upload_speed

(* variant: the eviction empties the table *)
Remove_all(cache, cache_key) == <<>>

Remove(cache, cache_key) ==
    [k \in DOMAIN cache \ {cache_key} |-> cache[k]]

(* variant: an entry whose age equals the timeout still counts as fresh *)
get_cached_result_inclusive(cache, cache_key, t) ==
    IF cache_key \in DOMAIN cache
    THEN IF t - cache[cache_key][2] <= cache_timeout
         THEN [result |-> Some(cache[cache_key][1]), cache |-> cache,
               event |-> "cache_hit"]
         ELSE [result |-> None, cache |-> Remove(cache, cache_key),
               event |-> "cache_expired"]
    ELSE [result |-> None, cache |-> cache, event |-> "cache_miss"]

get_cached_result(cache, cache_key, t) ==
    IF cache_key \in DOMAIN cache
    THEN LET result == cache[cache_key][1]
             timestamp == cache[cache_key][2]
             age_seconds == t - timestamp
         IN  IF age_seconds < cache_timeout
             THEN [result |-> Some(result), cache |-> cache,
                   event |-> "cache_hit"]
             ELSE [result |-> None, cache |-> Remove(cache, cache_key),
                   event |-> "cache_expired"]
    ELSE [result |-> None, cache |-> cache, event |-> "cache_miss"]

(* variant: an entry already in the table is kept *)
cache_result_keep_first(cache, cache_key, result, t) ==
    IF cache_key \in DOMAIN cache
    THEN cache
    ELSE [k \in DOMAIN cache \cup {cache_key} |->
             IF k = cache_key THEN <<result, t>> ELSE cache[k]]

cache_result(cache, cache_key, result, t) ==
    [k \in DOMAIN cache \cup {cache_key} |->
        IF k = cache_key THEN <<result, t>> ELSE cache[k]]

----------------------------------------------------------------------------
(* RetryScheduler *)

max_delay == 300
base_delay == 30

(* variant: the exponent counts attempts from zero *)
handle_retry_delay_zero_based(attempt) ==
    Min(max_delay, Pow2(attempt - 1) * base_delay)

(* variant: no ceiling *)
handle_retry_delay_uncapped(attempt) == Pow2(attempt) * base_delay

handle_retry_delay(attempt) == Min(max_delay, Pow2(attempt) * base_delay)

(* the clock is read at the grain of the shortest backoff delay *)
TickStep == handle_retry_delay(1)

----------------------------------------------------------------------------
(* ReconciliationEngine: the decisions of one attempt *)

(* variant: every pair of results is taken as a disagreement *)
PricesDiffer_always(result1, result2) == TRUE

PricesDiffer(result1, result2) ==
    result1.current_price # result2.current_price

EqualConfidence(result1, result2) ==
    FEq(result1.confidence_score, result2.confidence_score)

PriceMatches(result, original_price) ==
    original_price # None /\ result.current_price = original_price

(* variant: with unequal confidences the more confident model is queried  *)
(* again                                                                   *)
lower_confidence_model_higher(result1, result2, original_price) ==
    IF EqualConfidence(result1, result2)
    THEN LET price1_matches == PriceMatches(result1, original_price)
             price2_matches == PriceMatches(result2, original_price)
         IN  CASE price1_matches /\ ~price2_matches -> 2
               [] price2_matches /\ ~price1_matches -> 1
               [] OTHER -> 0
    ELSE IF FGt(result1.confidence_score, result2.confidence_score)
         THEN 1 ELSE 2

(* variant: with equal confidences the model that matched the advertised   *)
(* price is queried again                                                  *)
lower_confidence_model_matching(result1, result2, original_price) ==
    IF EqualConfidence(result1, result2)
    THEN LET price1_matches == PriceMatches(result1, original_price)
             price2_matches == PriceMatches(result2, original_price)
         IN  CASE price1_matches /\ ~price2_matches -> 1
               [] price2_matches /\ ~price1_matches -> 2
               [] OTHER -> 0
    ELSE IF FGt(result1.confidence_score, result2.confidence_score)
         THEN 2 ELSE 1

(* variant: the unresolvable case silently queries the first model again   *)
lower_confidence_model_silent(result1, result2, original_price) ==
    IF EqualConfidence(result1, result2)
    THEN LET price1_matches == PriceMatches(result1, original_price)
             price2_matches == PriceMatches(result2, original_price)
         IN  CASE price1_matches /\ ~price2_matches -> 2
               [] price2_matches /\ ~price1_matches -> 1
               [] OTHER -> 1
    ELSE IF FGt(result1.confidence_score, result2.confidence_score)
         THEN 2 ELSE 1

(* The model to query again: 1 is self.model, 2 is self.model2, 0 stands   *)
(* for the ValueError of the unresolvable case.                            *)
lower_confidence_model(result1, result2, original_price) ==
    IF EqualConfidence(result1, result2)
    THEN LET price1_matches == PriceMatches(result1, original_price)
             price2_matches == PriceMatches(result2, original_price)
         IN  CASE price1_matches /\ ~price2_matches -> 2
               [] price2_matches /\ ~price1_matches -> 1
               [] OTHER -> 0
    ELSE IF FGt(result1.confidence_score, result2.confidence_score)
         THEN 2 ELSE 1

(* max(seq, key = confidence_score): the first element no later element    *)
(* strictly exceeds.                                                       *)
MaxConfidence(result1, result2, retry_result) ==
    LET best == IF FGt(result2.confidence_score, result1.confidence_score)
                THEN result2 ELSE result1
    IN  IF FGt(retry_result.confidence_score, best.confidence_score)
        THEN retry_result ELSE best

(* variant: a tie goes to the second model *)
SelectAgreed_strict(result1, result2) ==
    IF FGt(result1.confidence_score, result2.confidence_score)
    THEN result1 ELSE result2

SelectAgreed(result1, result2) ==
    IF FGe(result1.confidence_score, result2.confidence_score)
    THEN result1 ELSE result2

cache_confidence == 80

(* variant: the boundary confidence is cached too *)
ShouldCache_inclusive(result) ==
    result.verified /\ FGe(result.confidence_score, cache_confidence)

ShouldCache(result) ==
    result.verified /\ FGt(result.confidence_score, cache_confidence)

----------------------------------------------------------------------------
(* Inputs drawn by the model *)

Plan(name, price) ==
    [providers_plan_name |-> name, download_speed |-> "100",
     upload_speed |-> "20", price |-> price]

ProviderUrls == {"u"}

PlanInputs == {Plan("p", Some(89)), Plan("p", None)}

ModelOutputs ==
    {Answer(Num(89), 90, TRUE), Answer(Num(95), 90, TRUE),
     Answer(Num(95), 85, FALSE), Answer(Num(89), 80, TRUE),
     Answer(Num(95), 0, FALSE), Answer(Num(89), 150, TRUE),
     RawObject(required_fields, TRUE, JNaN, Num(89)),
     RawText, RawBadFence}

ModelError == Msg("generate_content failed", {})

UnclearMatch ==
    Msg("Equal confidence with unclear match quality requires full retry", {})

----------------------------------------------------------------------------
(* The frame of one verify_price call: its arguments, its locals, the      *)
(* worker threads it awaits, what its caller received, the event the cache *)
(* lookup logged, and the counts of what the call has done.  abandoned is  *)
(* the set of attempts of the running call that left a thread running.     *)

NoTask == [st |-> "none", text |-> None]
Running == [st |-> "running", text |-> None]
Done(raw) == [st |-> "done", text |-> Some(raw)]
Raised == [st |-> "raised", text |-> None]

NoOutcome == [kind |-> "none", value |-> None, exc |-> ""]
Returns(record) == [kind |-> "return", value |-> Some(record), exc |-> ""]
Raises(exc) == [kind |-> "raise", value |-> None, exc |-> exc]

(* One entry of a call's history: what was done, in which attempt *)
Event(e, attempt) == [e |-> e, attempt |-> attempt]

NewFrame(provider_url, plan_details, retry_count) ==
    [pc |-> "idle",
     provider_url |-> provider_url,
     plan_details |-> plan_details,
     retry_count |-> retry_count,
     cache_key |-> generate_cache_key(provider_url, plan_details),
     cached_result |-> None,
     cache_event |-> "none",
     retry_attempt |-> 0,
     last_error |-> None,
     responses |-> <<NoTask, NoTask>>,
     result1 |-> None,
     result2 |-> None,
     requeried |-> 0,
     retry_result |-> None,
     result |-> None,
     outcome |-> NoOutcome,
     model_calls |-> 0,
     attempt_calls |-> 0,
     attempts |-> 0,
     delays |-> <<>>,
     cache_writes |-> 0,
     events |-> <<>>]

FailedRecord(last_error, t) ==
    [verified |-> FALSE,
     confidence_score |-> 0,
     current_price |-> None,
     promo_details |-> None,
     verification_date |-> t,
     error |-> last_error,
     error_type |-> Some("VERIFICATION_FAILED"),
     match_details |-> EmptyDict]

(* time.time() - cached_result.get('verification_date', 0): a float minus  *)
(* a datetime is a TypeError; only a record without the key gives a number *)
CacheAgeRaises(cached_result) ==
    "verification_date" \in DOMAIN cached_result

(* variant: the loop runs while retry_attempt <= retry_count *)
LoopTest_one_more(f, t) ==
    IF f.retry_attempt <= f.retry_count
    THEN [f EXCEPT !.pc = "gather",
                   !.responses = <<Running, Running>>,
                   !.result1 = None, !.result2 = None,
                   !.requeried = 0, !.retry_result = None,
                   !.model_calls = @ + 2,
                   !.attempt_calls = 2,
                   !.attempts = @ + 1,
                   !.events = @ \o <<Event("primary_call", f.attempts + 1),
                                     Event("primary_call", f.attempts + 1)>>]
    ELSE [f EXCEPT !.pc = "returned",
                   !.responses = <<NoTask, NoTask>>,
                   !.result1 = None, !.result2 = None,
                   !.requeried = 0, !.retry_result = None,
                   !.outcome = Returns(FailedRecord(f.last_error, t)),
                   !.events = Append(@, Event("return", f.attempts))]

(* variant: only the first model is called when an attempt starts, the   *)
(* second would be called after its answer                                *)
LoopTest_sequential(f, t) ==
    IF f.retry_attempt < f.retry_count
    THEN [f EXCEPT !.pc = "gather",
                   !.responses = <<Running, NoTask>>,
                   !.result1 = None, !.result2 = None,
                   !.requeried = 0, !.retry_result = None,
                   !.model_calls = @ + 1,
                   !.attempt_calls = 1,
                   !.attempts = @ + 1,
                   !.events = @ \o <<Event("primary_call", f.attempts + 1)>>]
    ELSE [f EXCEPT !.pc = "returned",
                   !.responses = <<NoTask, NoTask>>,
                   !.result1 = None, !.result2 = None,
                   !.requeried = 0, !.retry_result = None,
                   !.outcome = Returns(FailedRecord(f.last_error, t)),
                   !.events = Append(@, Event("return", f.attempts))]

(* while retry_attempt < retry_count: start an attempt (both models are    *)
(* handed to worker threads and gathered), or leave the loop and return    *)
(* the terminal record.  The locals of the failed attempt are dead here    *)
(* (each is assigned again before it is read, or never read) and are       *)
(* cleared.                                                                *)
LoopTest(f, t) ==
    IF f.retry_attempt < f.retry_count
    THEN [f EXCEPT !.pc = "gather",
                   !.responses = <<Running, Running>>,
                   !.result1 = None, !.result2 = None,
                   !.requeried = 0, !.retry_result = None,
                   !.model_calls = @ + 2,
                   !.attempt_calls = 2,
                   !.attempts = @ + 1,
                   !.events = @ \o <<Event("primary_call", f.attempts + 1),
                                     Event("primary_call", f.attempts + 1)>>]
    ELSE [f EXCEPT !.pc = "returned",
                   !.responses = <<NoTask, NoTask>>,
                   !.result1 = None, !.result2 = None,
                   !.requeried = 0, !.retry_result = None,
                   !.outcome = Returns(FailedRecord(f.last_error, t)),
                   !.events = Append(@, Event("return", f.attempts))]

Unfinished(f) == \E i \in 1 .. 2 : f.responses[i].st = "running"

(* variant: the last failed attempt goes to the terminal record at once,   *)
(* without a backoff delay                                                 *)
HandleException_no_last_backoff(f, e) ==
    IF f.retry_attempt + 1 < f.retry_count
    THEN [f EXCEPT !.last_error = Some(e),
                   !.retry_attempt = @ + 1,
                   !.delays = Append(@, handle_retry_delay(f.retry_attempt + 1)),
                   !.responses = <<NoTask, NoTask>>,
                   !.pc = "sleep"]
    ELSE LoopTest([f EXCEPT !.last_error = Some(e),
                            !.retry_attempt = @ + 1], now)

(* except Exception as e: up to the await of the backoff sleep *)
HandleException(f, e) ==
    [f EXCEPT !.last_error = Some(e),
              !.retry_attempt = @ + 1,
              !.delays = Append(@, handle_retry_delay(f.retry_attempt + 1)),
              !.responses = <<NoTask, NoTask>>,
              !.pc = "sleep"]

(* variant: the result is returned first and stored afterwards *)
Finish_return_first(f, result, cache, t) ==
    [frame |-> [f EXCEPT !.result = Some(result),
                         !.pc = "returned",
                         !.responses = <<NoTask, NoTask>>,
                         !.outcome = Returns(result),
                         !.cache_writes =
                             IF ShouldCache(result) THEN @ + 1 ELSE @,
                         !.events =
                             <<Event("return", f.attempts)>> \o
                             (IF ShouldCache(result)
                              THEN <<Event("cache_write", f.attempts)>>
                              ELSE <<>>) \o @],
     cache |-> IF ShouldCache(result)
               THEN cache_result(cache, f.cache_key, result, t)
               ELSE cache]

(* variant: a selected record that is not verified fails the attempt *)
Finish_retry_unverified(f, result, cache, t) ==
    IF result.verified
    THEN [frame |-> [f EXCEPT !.result = Some(result),
                              !.pc = "returned",
                              !.responses = <<NoTask, NoTask>>,
                              !.outcome = Returns(result),
                              !.cache_writes =
                                  IF ShouldCache(result) THEN @ + 1 ELSE @,
                              !.events =
                                  @ \o
                                  (IF ShouldCache(result)
                                   THEN <<Event("cache_write", f.attempts)>>
                                   ELSE <<>>) \o
                                  <<Event("return", f.attempts)>>],
          cache |-> IF ShouldCache(result)
                    THEN cache_result(cache, f.cache_key, result, t)
                    ELSE cache]
    ELSE [frame |-> HandleException(f, ModelError), cache |-> cache]

(* "Add result to cache if valid", then return result *)
Finish(f, result, cache, t) ==
    [frame |-> [f EXCEPT !.result = Some(result),
                         !.pc = "returned",
                         !.responses = <<NoTask, NoTask>>,
                         !.outcome = Returns(result),
                         !.cache_writes =
                             IF ShouldCache(result) THEN @ + 1 ELSE @,
                         !.events =
                             @ \o
                             (IF ShouldCache(result)
                              THEN <<Event("cache_write", f.attempts)>>
                              ELSE <<>>) \o
                             <<Event("return", f.attempts)>>],
     cache |-> IF ShouldCache(result)
               THEN cache_result(cache, f.cache_key, result, t)
               ELSE cache]

----------------------------------------------------------------------------
(* Actions *)

Init ==
    /\ verification_cache = <<>>
    /\ now = 0
    /\ frame = [c \in {1} |-> NewFrame("u", Plan("p", Some(89)), 0)]
    /\ abandoned = [c \in {1} |-> {}]
    /\ direct = NoDirect

(* verify_price is called: the cache check and, on a miss, the start of    *)
(* the first attempt, up to the first await.                               *)
Call(c, provider_url, plan_details, retry_count) ==
    /\ frame[c].pc \in {"idle", "returned", "raised"}
    /\ LET f == NewFrame(provider_url, plan_details, retry_count)
           looked == get_cached_result(verification_cache, f.cache_key, now)
           g == [f EXCEPT !.cached_result = looked.result,
                          !.cache_event = looked.event,
                          !.events = <<Event("cache_check", 0)>>]
       IN  /\ verification_cache' = looked.cache
           /\ abandoned' = [abandoned EXCEPT ![c] = {}]
           /\ frame' = [frame EXCEPT ![c] =
                  IF looked.result # None
                  THEN IF CacheAgeRaises(Val(looked.result))
                       THEN [g EXCEPT !.pc = "raised",
                                      !.outcome = Raises("TypeError"),
                                      !.events = Append(@, Event("raise", 0))]
                       ELSE [g EXCEPT !.pc = "returned",
                                      !.outcome = Returns(Val(looked.result)),
                                      !.events = Append(@, Event("return", 0))]
                  ELSE LoopTest(g, now)]
    /\ UNCHANGED <<now, direct>>

(* a worker thread's generate_content returns text *)
ModelReturns(c, i, raw) ==
    /\ frame[c].pc = "gather"
    /\ frame[c].responses[i].st = "running"
    /\ frame' = [frame EXCEPT ![c].responses[i] = Done(raw)]
    /\ UNCHANGED <<verification_cache, now, abandoned, direct>>

(* a worker thread's generate_content raises *)
ModelRaises(c, i) ==
    /\ frame[c].pc = "gather"
    /\ frame[c].responses[i].st = "running"
    /\ frame' = [frame EXCEPT ![c].responses[i] = Raised]
    /\ UNCHANGED <<verification_cache, now, abandoned, direct>>

(* asyncio.gather hands over both responses: parse, reconcile, and either  *)
(* select a record, query one model again, or raise the ValueError.        *)
GatherCompletes(c) ==
    LET f == frame[c] IN
    /\ f.pc = "gather"
    /\ \A i \in 1 .. 2 : f.responses[i].st = "done"
    /\ LET result1 == parse_verification_response(Val(f.responses[1].text), now)
           result2 == parse_verification_response(Val(f.responses[2].text), now)
           g == [f EXCEPT !.result1 = Some(result1), !.result2 = Some(result2)]
           again == lower_confidence_model(result1, result2, f.plan_details.price)
       IN  IF PricesDiffer(result1, result2)
           THEN /\ frame' = [frame EXCEPT ![c] =
                       IF again = 0
                       THEN HandleException(g, UnclearMatch)
                       ELSE [g EXCEPT !.requeried = again,
                                      !.pc = "requery",
                                      !.model_calls = @ + 1,
                                      !.attempt_calls = @ + 1,
                                      !.events = Append(@,
                                          Event("requery_call", f.attempts))]]
                /\ UNCHANGED verification_cache
           ELSE LET done == Finish(g, SelectAgreed(result1, result2),
                                   verification_cache, now)
                IN  /\ frame' = [frame EXCEPT ![c] = done.frame]
                    /\ verification_cache' = done.cache
    /\ UNCHANGED <<now, abandoned, direct>>

(* asyncio.gather raises the first exception of its two threads; the other *)
(* thread, if still running, is left running.                              *)
GatherRaises(c) ==
    /\ frame[c].pc = "gather"
    /\ \E i \in 1 .. 2 : frame[c].responses[i].st = "raised"
    /\ frame' = [frame EXCEPT ![c] = HandleException(frame[c], ModelError)]
    /\ abandoned' = [abandoned EXCEPT ![c] =
           IF Unfinished(frame[c]) THEN @ \cup {frame[c].attempts} ELSE @]
    /\ UNCHANGED <<verification_cache, now, direct>>

(* the model queried again answers: parse, select the maximum, finish *)
RequeryReturns(c, raw) ==
    LET f == frame[c] IN
    /\ f.pc = "requery"
    /\ LET retry_result == parse_verification_response(raw, now)
           g == [f EXCEPT !.retry_result = Some(retry_result)]
           done == Finish(g, MaxConfidence(Val(f.result1), Val(f.result2),
                                           retry_result),
                          verification_cache, now)
       IN  /\ frame' = [frame EXCEPT ![c] = done.frame]
           /\ verification_cache' = done.cache
    /\ UNCHANGED <<now, abandoned, direct>>

(* the model queried again raises *)
RequeryRaises(c) ==
    /\ frame[c].pc = "requery"
    /\ frame' = [frame EXCEPT ![c] = HandleException(frame[c], ModelError)]
    /\ UNCHANGED <<verification_cache, now, abandoned, direct>>

(* asyncio.sleep(delay) ends: the loop condition is tested again *)
SleepEnds(c) ==
    LET f == frame[c]
        t == Min(MaxTime, now + f.delays[Len(f.delays)])
    IN  /\ f.pc = "sleep"
        /\ now' = t
        /\ frame' = [frame EXCEPT ![c] = LoopTest(f, t)]
        /\ UNCHANGED <<verification_cache, abandoned, direct>>

(* a thread left running by a failed gather ends; nobody reads its result *)
AbandonedEnds(c, k) ==
    /\ k \in abandoned[c]
    /\ abandoned' = [abandoned EXCEPT ![c] = @ \ {k}]
    /\ UNCHANGED <<verification_cache, now, frame, direct>>

(* the wall clock advances *)
Tick ==
    /\ now + TickStep <= MaxTime
    /\ now' = now + TickStep
    /\ UNCHANGED <<verification_cache, frame, abandoned, direct>>

Calls == DOMAIN frame

Next ==
    \/ \E c \in Calls, u \in ProviderUrls, p \in PlanInputs,
          n \in 0 .. MaxRetryCount : Call(c, u, p, n)
    \/ \E c \in Calls, i \in 1 .. 2, raw \in ModelOutputs : ModelReturns(c, i, raw)
    \/ \E c \in Calls, i \in 1 .. 2 : ModelRaises(c, i)
    \/ \E c \in Calls : GatherCompletes(c)
    \/ \E c \in Calls : GatherRaises(c)
    \/ \E c \in Calls, raw \in ModelOutputs : RequeryReturns(c, raw)
    \/ \E c \in Calls : RequeryRaises(c)
    \/ \E c \in Calls : SleepEnds(c)
    \/ \E c \in Calls, k \in 1 .. MaxRetryCount : AbandonedEnds(c, k)
    \/ Tick

Spec == Init /\ [][Next]_vars

----------------------------------------------------------------------------
(* Vocabulary of the properties *)

Conf(o) == Val(o).confidence_score
Price(o) == Val(o).current_price

IsNumber(x) == x # NaN

Parsed(f) == f.result1 # None /\ f.result2 # None

Agreed(f) == Parsed(f) /\ Price(f.result1) = Price(f.result2)

Disagreed(f) == Parsed(f) /\ Price(f.result1) # Price(f.result2)

Comparable(f) == IsNumber(Conf(f.result1)) /\ IsNumber(Conf(f.result2))

SameConfidence(f) == Comparable(f) /\ Conf(f.result1) = Conf(f.result2)

OrderedConfidence(f) == Comparable(f) /\ Conf(f.result1) # Conf(f.result2)

Advertised(f, o) ==
    f.plan_details.price # None /\ Price(o) = f.plan_details.price

Qualifies(r) ==
    r.verified /\ IsNumber(r.confidence_score) /\ r.confidence_score > 80

TerminalFailure(f) ==
    /\ f.pc = "returned"
    /\ f.outcome.kind = "return"
    /\ Val(f.outcome.value).error_type = Some("VERIFICATION_FAILED")

(* result is the first of result1, result2, retry_result that none of the  *)
(* three strictly exceeds in confidence                                    *)
IsMaxOfThree(f) ==
    LET rs == <<Val(f.result1), Val(f.result2), Val(f.retry_result)>>
    IN  \E i \in 1 .. 3 :
          /\ f.result = Some(rs[i])
          /\ \A j \in 1 .. 3 :
               ~ (/\ IsNumber(rs[j].confidence_score)
                  /\ IsNumber(rs[i].confidence_score)
                  /\ rs[j].confidence_score > rs[i].confidence_score)
          /\ \A j \in 1 .. i - 1 :
               /\ IsNumber(rs[j].confidence_score)
               /\ IsNumber(rs[i].confidence_score)
               /\ rs[j].confidence_score < rs[i].confidence_score

RecordsOf(f) ==
    {Val(o) : o \in {f.result1, f.result2, f.retry_result, f.result,
                     f.outcome.value} \ {None}}

AllRecords ==
    UNION {RecordsOf(frame[c]) : c \in Calls}
      \cup {verification_cache[k][1] : k \in DOMAIN verification_cache}

----------------------------------------------------------------------------
(* C1: verify_price never raises to its caller: whatever the cache holds,  *)
(* whatever retry_count >= 0 and whatever the two models do, the call ends *)
(* by returning a record.                                                  *)
C1_NeverRaises ==
    \A c \in Calls : frame[c].outcome.kind # "raise"

(* C2: a call that finds an unexpired entry for its key returns that       *)
(* entry's record unchanged and issues no model call.                      *)
C2_CacheHitReturnsEntry ==
    \A c \in Calls :
      frame[c].cache_event = "cache_hit" =>
        /\ frame[c].outcome = Returns(Val(frame[c].cached_result))
        /\ frame[c].model_calls = 0

(* C3: the record an attempt selects is stored under the call's key if and *)
(* only if it is verified with a confidence strictly above 0.8; a selected *)
(* record of confidence exactly 0.8 is returned and not stored; a call     *)
(* that selects nothing (the terminal failure) stores nothing.             *)
C3_CachePopulation ==
    \A c \in Calls :
      LET f == frame[c] IN
      /\ f.cache_writes \in {0, 1}
      /\ f.result = None => f.cache_writes = 0
      /\ TerminalFailure(f) => f.result = None
      /\ f.result # None =>
           /\ f.outcome = Returns(Val(f.result))
           /\ f.cache_writes = 1 <=> Qualifies(Val(f.result))
           /\ Qualifies(Val(f.result)) =>
                /\ f.cache_key \in DOMAIN verification_cache
                /\ verification_cache[f.cache_key][1] = Val(f.result)
           /\ ~ Qualifies(Val(f.result)) =>
                f.cache_key \notin DOMAIN verification_cache
           /\ Conf(f.result) = 80 => f.cache_writes = 0

C3_Stored ==
    \E c \in Calls :
      /\ frame[c].result # None
      /\ frame[c].cache_writes = 1
      /\ frame[c].cache_key \in DOMAIN verification_cache
      /\ verification_cache[frame[c].cache_key][1] = Val(frame[c].result)

(* C4: every record the parser produces, and so every record verify_price  *)
(* holds, returns or caches, that has verified = true has a confidence of  *)
(* at least 0.8 and no error_type.                                         *)
C4_ThresholdInvariant ==
    \A r \in AllRecords :
      r.verified =>
        /\ IsNumber(r.confidence_score)
        /\ r.confidence_score >= 80
        /\ r.error_type = None

(* C5: with retry_count = n >= 1 and every attempt failing, the call makes *)
(* exactly n attempts and n backoff delays, the k-th of min(300, 2^k * 30) *)
(* seconds (60 then 120 for n = 2), and returns the VERIFICATION_FAILED    *)
(* record.                                                                 *)
C5_RetryExhaustion ==
    \A c \in Calls :
      LET f == frame[c]
          n == f.retry_count
      IN  /\ (f.pc = "returned" /\ n >= 1 /\ f.retry_attempt = n) =>
               TerminalFailure(f)
          /\ (TerminalFailure(f) /\ n >= 1) =>
               /\ f.attempts = n
               /\ f.retry_attempt = n
               /\ Len(f.delays) = n
               /\ \A k \in 1 .. n :
                    f.delays[k] = IF 2^k * 30 < 300 THEN 2^k * 30 ELSE 300
               /\ n = 2 => f.delays = <<60, 120>>

C5_Exhausted ==
    \E c \in Calls :
      /\ TerminalFailure(frame[c])
      /\ frame[c].retry_count = 2
      /\ frame[c].attempts = 2
      /\ frame[c].delays = <<60, 120>>

(* C6: when the two parsed results have equal current_price the attempt    *)
(* selects the one of higher confidence, model A's on equal confidence,    *)
(* and issues no third model call.                                         *)
C6_AgreementSelection ==
    \A c \in Calls :
      LET f == frame[c] IN
      Agreed(f) =>
        /\ f.pc = "returned"
        /\ f.requeried = 0
        /\ f.retry_result = None
        /\ f.attempt_calls = 2
        /\ f.result \in {f.result1, f.result2}
        /\ Comparable(f) =>
             /\ Conf(f.result1) > Conf(f.result2) => f.result = f.result1
             /\ Conf(f.result2) > Conf(f.result1) => f.result = f.result2
             /\ Conf(f.result1) = Conf(f.result2) => f.result = f.result1

C6_SecondMoreConfident ==
    \E c \in Calls :
      /\ Agreed(frame[c])
      /\ Comparable(frame[c])
      /\ Conf(frame[c].result2) > Conf(frame[c].result1)
      /\ frame[c].result = frame[c].result2

(* C7: when the two parsed prices differ and one confidence is strictly    *)
(* lower than the other, exactly the model of lower confidence is queried  *)
(* once more, and the record selected is the one of maximum confidence     *)
(* among result1, result2 and the new result, the earliest winning ties.   *)
C7_UnequalConfidence ==
    \A c \in Calls :
      LET f == frame[c] IN
      (Disagreed(f) /\ OrderedConfidence(f)) =>
        /\ f.requeried = IF Conf(f.result1) < Conf(f.result2) THEN 1 ELSE 2
        /\ f.attempt_calls = 3
        /\ f.pc \in {"requery", "returned", "sleep"}
        /\ f.pc = "requery" => f.retry_result = None /\ f.result = None
        /\ f.pc = "sleep" => f.retry_result = None /\ f.result = None
        /\ f.pc = "returned" => f.retry_result # None /\ IsMaxOfThree(f)

C7_RequerySelected ==
    \E c \in Calls :
      LET f == frame[c] IN
      /\ Disagreed(f) /\ OrderedConfidence(f)
      /\ f.pc = "returned"
      /\ f.requeried = 1
      /\ f.result = f.retry_result
      /\ f.retry_result \notin {f.result1, f.result2}

(* C8: when the two parsed prices differ, the confidences are equal and    *)
(* exactly one price equals the advertised price, the model whose price    *)
(* is not the advertised one is queried once more, and the record selected *)
(* is the one of maximum confidence among the three.                       *)
C8_EqualConfidenceResolvable ==
    \A c \in Calls :
      LET f == frame[c] IN
      (/\ Disagreed(f) /\ SameConfidence(f)
       /\ Advertised(f, f.result1) # Advertised(f, f.result2)) =>
        /\ f.requeried = IF Advertised(f, f.result1) THEN 2 ELSE 1
        /\ f.attempt_calls = 3
        /\ f.pc \in {"requery", "returned", "sleep"}
        /\ f.pc = "returned" => f.retry_result # None /\ IsMaxOfThree(f)

C8_MismatchingRequeried ==
    \E c \in Calls :
      LET f == frame[c] IN
      /\ Disagreed(f) /\ SameConfidence(f)
      /\ Advertised(f, f.result1) /\ ~ Advertised(f, f.result2)
      /\ f.requeried = 2
      /\ f.pc = "returned"
      /\ f.result = f.retry_result

(* the unresolvable case of one attempt *)
Unresolvable(f) ==
    /\ Disagreed(f) /\ SameConfidence(f)
    /\ Advertised(f, f.result1) = Advertised(f, f.result2)

(* while the discarded attempt's results are held: nothing selected, no    *)
(* third call, the ValueError recorded, one budget unit used               *)
C9_Discarded ==
    \A c \in Calls :
      LET f == frame[c] IN
      Unresolvable(f) =>
        /\ f.pc = "sleep"
        /\ f.result = None
        /\ f.requeried = 0
        /\ f.retry_result = None
        /\ f.attempt_calls = 2
        /\ f.cache_writes = 0
        /\ f.last_error = Some(UnclearMatch)
        /\ f.retry_attempt = f.attempts
        /\ f.outcome = NoOutcome

(* the failing step counts one attempt, and the step that follows the     *)
(* backoff starts a fresh attempt or returns the terminal record           *)
C9_Step ==
    \A c \in Calls :
      /\ (frame[c].pc = "gather" /\ Unresolvable(frame'[c])) =>
           frame'[c].retry_attempt = frame[c].retry_attempt + 1
      /\ (Unresolvable(frame[c]) /\ frame'[c] # frame[c]) =>
           IF frame[c].retry_attempt < frame[c].retry_count
           THEN /\ frame'[c].pc = "gather"
                /\ frame'[c].responses = <<Running, Running>>
                /\ frame'[c].attempts = frame[c].attempts + 1
                /\ frame'[c].result1 = None /\ frame'[c].result2 = None
           ELSE /\ TerminalFailure(frame'[c])
                /\ Val(frame'[c].outcome.value).error = Some(UnclearMatch)

(* C9: when the two parsed prices differ, the confidences are equal and    *)
(* both or neither price equals the advertised price (none supplied        *)
(* included), no record is selected and no third model call is made; the   *)
(* attempt is discarded and uses one unit of the retry budget, the next    *)
(* attempt, if the budget allows one, queries both models afresh, and the  *)
(* caller sees no exception.                                               *)
C9_EqualConfidenceUnresolvable == [] C9_Discarded /\ [][C9_Step]_vars

C9_NoAdvertisedPrice ==
    \E c \in Calls :
      /\ Unresolvable(frame[c])
      /\ frame[c].plan_details.price = None
      /\ frame[c].pc = "sleep"

(* a step in which call c looks its key up (the start of verify_price) *)
LookupStep(c) ==
    /\ frame[c].pc \in {"idle", "returned", "raised"}
    /\ frame'[c] # frame[c]

(* a step in which call c stores its result *)
StoreStep(c) == frame'[c].cache_writes = frame[c].cache_writes + 1

C10_Step ==
    \A c \in Calls :
      /\ LookupStep(c) =>
           LET k == frame'[c].cache_key IN
           IF k \in DOMAIN verification_cache
           THEN IF now - verification_cache[k][2] < cache_timeout
                THEN /\ frame'[c].cached_result = Some(verification_cache[k][1])
                     /\ verification_cache' = verification_cache
                ELSE /\ frame'[c].cached_result = None
                     /\ k \notin DOMAIN verification_cache'
           ELSE /\ frame'[c].cached_result = None
                /\ verification_cache' = verification_cache
      /\ StoreStep(c) =>
           /\ frame'[c].cache_key \in DOMAIN verification_cache'
           /\ verification_cache'[frame'[c].cache_key] =
                <<Val(frame'[c].result), now>>

(* C10: a lookup of a key whose entry was stored less than the timeout ago *)
(* returns the stored record and leaves the cache alone; a lookup of an    *)
(* entry that is at least the timeout old is a miss and removes the entry; *)
(* a lookup of an absent key is a miss; a store writes the record with the *)
(* time of the store.                                                      *)
C10_CacheTTL == [][C10_Step]_vars

C10_Evicted ==
    \E c \in Calls :
      /\ frame[c].cache_event = "cache_expired"
      /\ frame[c].pc = "gather"
      /\ frame[c].cache_key \notin DOMAIN verification_cache

----------------------------------------------------------------------------
(* The parser called on its own, on every kind of raw output *)

Idle ==
    /\ verification_cache = <<>>
    /\ now = 0
    /\ frame = [c \in {1} |-> NewFrame("u", Plan("p", Some(89)), 0)]
    /\ abandoned = [c \in {1} |-> {}]

DirectCall(fn, arg) == [fn |-> fn, arg |-> arg, out |-> None]

RawObjectWith(keys, verified, confidence, price, plan_details, promo) ==
    [RawObject(keys, verified, confidence, price)
       EXCEPT !.plan_details = plan_details, !.promo = promo]

ParserInputs ==
    {RawText, RawNonObject, RawBadFence}
    \cup {RawObjectWith(keys, verified, confidence, price, details, promo) :
            keys \in SUBSET required_fields,
            verified \in BOOLEAN,
            confidence \in {Num(70), Num(80), Num(90), Num(150), JNaN, JNull,
                            JBadStr, JBadType},
            price \in {Num(89), JNull, JBadStr, JBadType},
            details \in {Text(<<"a", "!", "!">>), JNull, Num(5),
                         Text(Pad(truncate_at - 1) \o <<"!", "?", "a">>)},
            promo \in {JNull, Text(<<"a">>)}}

InitParse ==
    /\ Idle
    /\ \E raw \in ParserInputs : direct = DirectCall("parse", raw)

Parse ==
    /\ direct.fn = "parse"
    /\ direct.out = None
    /\ direct' = [direct EXCEPT !.out = Some(ParseOutcome(direct.arg, now))]
    /\ UNCHANGED <<verification_cache, now, frame, abandoned>>

NextParse == Parse

SpecParse == InitParse /\ [][NextParse]_vars

Parsed_(d) == d.fn = "parse" /\ d.out # None

(* C11: the parser never raises.  Whatever the raw output, the call ends   *)
(* by returning a record, and when the body failed the record is the       *)
(* failed one: not verified, confidence 0, error_type set.                 *)
C11_ParserNeverRaises ==
    Parsed_(direct) =>
        LET out == Val(direct.out)
        IN  /\ out.kind = "return"
            /\ out.value # None
            /\ ParseBody(direct.arg, now).exc # "none" =>
                 /\ Val(out.value).verified = FALSE
                 /\ Val(out.value).confidence_score = 0
                 /\ Val(out.value).error_type # None

C11_Coerced ==
    /\ Parsed_(direct)
    /\ direct.arg.form = "object"
    /\ direct.arg.keys = required_fields
    /\ direct.arg.confidence = JBadType
    /\ Val(direct.out).kind = "return"
    /\ Val(Val(direct.out).value).error_type = Some("PROCESSING_ERROR")

----------------------------------------------------------------------------
(* The retry scheduler called on its own, for two attempt numbers *)

MaxAttempt == 10

InitDelay ==
    /\ Idle
    /\ \E a \in 1 .. MaxAttempt, b \in 1 .. MaxAttempt :
          direct = DirectCall("delay", <<a, b>>)

Delay ==
    /\ direct.fn = "delay"
    /\ direct.out = None
    /\ direct' = [direct EXCEPT !.out =
                    Some(<<handle_retry_delay(direct.arg[1]),
                           handle_retry_delay(direct.arg[2])>>)]
    /\ UNCHANGED <<verification_cache, now, frame, abandoned>>

NextDelay == Delay

SpecDelay == InitDelay /\ [][NextDelay]_vars

(* C12: the delay for the 1-based attempt number a is min(300, 2^a * 30):  *)
(* 60, 120, 240 for a = 1, 2, 3, exactly 300 from a = 4 on, non-decreasing *)
(* in a, never above 300.                                                  *)
C12_BackoffDelay ==
    (direct.fn = "delay" /\ direct.out # None) =>
        LET a == direct.arg[1]
            b == direct.arg[2]
            da == Val(direct.out)[1]
            db == Val(direct.out)[2]
        IN  /\ da = IF 2^a * 30 < 300 THEN 2^a * 30 ELSE 300
            /\ a = 1 => da = 60
            /\ a = 2 => da = 120
            /\ a = 3 => da = 240
            /\ a >= 4 => da = 300
            /\ a <= b => da <= db
            /\ da <= 300

C12_Ceiling ==
    /\ direct.fn = "delay"
    /\ direct.arg = <<3, 4>>
    /\ direct.out = Some(<<240, 300>>)

----------------------------------------------------------------------------
(* The detail cleaner called on its own, and again on its own result.     *)
(* The inputs are a run of letters, of a length around the truncation     *)
(* point, followed by a short tail over a letter, a blank and two special *)
(* characters.                                                            *)

MaxTail == 3

TailChars == {"a", " ", "!", "?"}

Tails == UNION {[1 .. n -> TailChars] : n \in 0 .. MaxTail}

PadLengths == {0} \cup (truncate_at - MaxTail .. truncate_at)

CleanerInputs ==
    {None} \cup {Some(Pad(n) \o tail) : n \in PadLengths, tail \in Tails}

InitClean ==
    /\ Idle
    /\ \E x \in CleanerInputs :
          direct = [fn |-> "clean", arg |-> x, out |-> None, again |-> None]

Clean ==
    /\ direct.fn = "clean"
    /\ direct.out = None
    /\ direct' = [direct EXCEPT !.out = Some(clean_plan_details(direct.arg))]
    /\ UNCHANGED <<verification_cache, now, frame, abandoned>>

CleanAgain ==
    /\ direct.fn = "clean"
    /\ direct.out # None
    /\ direct.again = None
    /\ direct' = [direct EXCEPT !.again = Some(clean_plan_details(direct.out))]
    /\ UNCHANGED <<verification_cache, now, frame, abandoned>>

NextClean == Clean \/ CleanAgain

SpecClean == InitClean /\ [][NextClean]_vars

(* C13: cleaning idempotence.  For every input, cleaning the cleaned value *)
(* gives the cleaned value: clean(clean(x)) = clean(x).                    *)
C13_CleaningIdempotence ==
    (direct.fn = "clean" /\ direct.again # None) => direct.again = direct.out

(* Runs of special characters, from the text of the claim *)
IsRunStart(str, i) == IsSpecial(str[i]) /\ (i = 1 \/ ~IsSpecial(str[i - 1]))
IsRunEnd(str, i) == IsSpecial(str[i]) /\ (i = Len(str) \/ ~IsSpecial(str[i + 1]))

RECURSIVE Collapse(_, _, _)
Collapse(str, i, keep_first) ==
    IF i > Len(str) THEN <<>>
    ELSE (IF \/ ~IsSpecial(str[i])
             \/ keep_first /\ IsRunStart(str, i)
             \/ ~keep_first /\ IsRunEnd(str, i)
          THEN <<str[i]>> ELSE <<>>) \o Collapse(str, i + 1, keep_first)

First50(str) == [i \in 1 .. (IF Len(str) < 50 THEN Len(str) ELSE 50) |-> str[i]]

Trimmed(str, out) ==
    /\ out = <<>> \/ (out[1] # " " /\ out[Len(out)] # " ")
    /\ \E l \in 0 .. Len(str), r \in 0 .. Len(str) :
          /\ l + r <= Len(str)
          /\ \A i \in (1 .. l) \cup (Len(str) - r + 1 .. Len(str)) : str[i] = " "
          /\ out = [i \in 1 .. Len(str) - l - r |-> str[l + i]]

Cleaned(d) == d.fn = "clean" /\ d.out # None /\ d.arg # None /\ Val(d.arg) # <<>>

(* C20 as stated: of each run of special characters the FIRST is kept *)
C20_KeepsFirstOfRun ==
    Cleaned(direct) =>
        Trimmed(Collapse(First50(Val(direct.arg)), 1, TRUE), Val(direct.out))

(* C20: for a non-empty input the cleaner truncates to the first 50        *)
(* characters, then replaces every run of two or more special characters   *)
(* by one character, the LAST of the run, then trims leading and trailing  *)
(* whitespace.                                                             *)
C20_KeepsLastOfRun ==
    Cleaned(direct) =>
        Trimmed(Collapse(First50(Val(direct.arg)), 1, FALSE), Val(direct.out))

C20_RunCollapsed ==
    /\ Cleaned(direct)
    /\ Val(direct.arg) = Pad(truncate_at - 3) \o <<"!", "?", " ">>
    /\ Val(direct.out) = Pad(truncate_at - 3) \o <<"?">>

----------------------------------------------------------------------------
(* Order of the steps of one call *)

Before(ev, kinds, i) == {j \in 1 .. i - 1 : ev[j].e \in kinds}

ModelCallKinds == {"primary_call", "requery_call"}

(* C14: within one verify_price call the cache check precedes every model  *)
(* invocation, every cache write is preceded by the two primary model      *)
(* invocations of the same attempt, and a cache write precedes the return. *)
C14_Ordering ==
    \A c \in Calls :
        LET ev == frame[c].events
        IN  /\ \A i \in DOMAIN ev :
                 ev[i].e \in ModelCallKinds =>
                     Before(ev, {"cache_check"}, i) # {}
            /\ \A i \in DOMAIN ev :
                 ev[i].e = "cache_write" =>
                     /\ Cardinality({j \in Before(ev, {"primary_call"}, i) :
                                        ev[j].attempt = ev[i].attempt}) >= 2
                     /\ Before(ev, {"return", "raise"}, i) = {}
            /\ (frame[c].pc = "returned" /\ frame[c].cache_writes > 0) =>
                 /\ ev[Len(ev)].e = "return"
                 /\ Before(ev, {"cache_write"}, Len(ev)) # {}

C14_StoredThenReturned ==
    \E c \in Calls :
        /\ frame[c].pc = "returned"
        /\ frame[c].attempts = 2
        /\ frame[c].events =
             <<Event("cache_check", 0),
               Event("primary_call", 1), Event("primary_call", 1),
               Event("primary_call", 2), Event("primary_call", 2),
               Event("requery_call", 2),
               Event("cache_write", 2), Event("return", 2)>>

----------------------------------------------------------------------------
(* run_scrapegraph_LLM: one scraping run and the extraction of its metrics *)

MaxInfo == 3

TOTAL_RESULT == "TOTAL RESULT"

(* the entries of the execution info: node_name may be missing *)
ExecutionInfos ==
    [node_name : {None, Some("Fetch"), Some(TOTAL_RESULT)},
     total_tokens : 1 .. 2]

ExecutionInfoLists == UNION {[1 .. n -> ExecutionInfos] : n \in 0 .. MaxInfo}

RECURSIVE get_total_result_metrics(_)
get_total_result_metrics(execution_info_list) ==
    IF execution_info_list = <<>> THEN None
    ELSE IF Head(execution_info_list).node_name = Some(TOTAL_RESULT)
         THEN Some(Head(execution_info_list))
         ELSE get_total_result_metrics(Tail(execution_info_list))

(* scraper.run() returns (result, execution_info) or raises *)
RunReturns(execution_info) ==
    [raised |-> FALSE, result |-> "scraped", execution_info |-> execution_info]
RunRaises == [raised |-> TRUE, result |-> "", execution_info |-> <<>>]

ScraperRuns == {RunRaises} \cup {RunReturns(l) : l \in ExecutionInfoLists}

(* the try block, lines 41-54 *)
ScrapeBody(run) ==
    IF run.raised THEN Throw("Exception", Msg("scraper.run failed", {}))
    ELSE LET total_metrics == get_total_result_metrics(run.execution_info)
         IN  IF total_metrics = None
             THEN Throw("Exception",
                        Msg("Failed to find TOTAL RESULT metrics", {}))
             ELSE Result([scrape_result |-> run.result,
                          execution_metrics |-> Val(total_metrics)])

(* except Exception as e: print(...); return None *)
run_scrapegraph_LLM(run) ==
    LET body == ScrapeBody(run)
    IN  IF body.exc = "none"
        THEN [kind |-> "return", value |-> body.result, exc |-> ""]
        ELSE [kind |-> "return", value |-> None, exc |-> ""]

InitScrape ==
    /\ Idle
    /\ \E run \in ScraperRuns : direct = DirectCall("scrape", run)

Scrape ==
    /\ direct.fn = "scrape"
    /\ direct.out = None
    /\ direct' = [direct EXCEPT !.out = Some(run_scrapegraph_LLM(direct.arg))]
    /\ UNCHANGED <<verification_cache, now, frame, abandoned>>

NextScrape == Scrape

SpecScrape == InitScrape /\ [][NextScrape]_vars

HasTotalResult(execution_info) ==
    \E i \in DOMAIN execution_info :
        execution_info[i].node_name = Some("TOTAL RESULT")

(* C15: run_scrapegraph_LLM raises an Exception to its caller when the     *)
(* execution info returned by the scraper has no entry whose node_name is  *)
(* "TOTAL RESULT".                                                         *)
C15_RaisesWithoutTotalResult ==
    (/\ direct.fn = "scrape"
     /\ direct.out # None
     /\ ~direct.arg.raised
     /\ ~HasTotalResult(direct.arg.execution_info)) =>
        Val(direct.out).kind = "raise"

----------------------------------------------------------------------------
(* The orchestrator's state machine *)

InAttempt(f) == f.pc \in {"gather", "requery"}

(* the attempt in progress ended without a result *)
AttemptFails(c) ==
    /\ InAttempt(frame[c])
    /\ ~InAttempt(frame'[c])
    /\ ~(frame'[c].pc = "returned" /\ frame'[c].result # None)

(* C16 as stated: backoff is entered only while the incremented counter    *)
(* is below retry_count; at retry_count the call is done without a delay   *)
C16_BackoffOnlyBeforeRetry ==
    \A c \in Calls :
        frame[c].pc = "sleep" => frame[c].retry_attempt < frame[c].retry_count

C16_Step ==
    \A c \in Calls :
        LET f == frame[c]
            g == frame'[c]
        IN  /\ AttemptFails(c) =>
                 /\ g.retry_attempt = f.retry_attempt + 1
                 /\ g.pc = "sleep"
                 /\ Len(g.delays) = Len(f.delays) + 1
            /\ (f.pc = "sleep" /\ g.pc # "sleep") =>
                 /\ now' \in {now + f.delays[Len(f.delays)], MaxTime}
                 /\ IF f.retry_attempt < f.retry_count
                    THEN g.pc = "gather" /\ g.attempts = f.attempts + 1
                    ELSE TerminalFailure(g) /\ g.attempts = f.attempts
            /\ (TerminalFailure(g) /\ ~TerminalFailure(f) /\ g.attempts > 0) =>
                 f.pc = "sleep"

(* C16: after a failed attempt the attempt counter is incremented and      *)
(* BACKOFF is entered in every case, also when the counter has reached     *)
(* retry_count; after the delay the next attempt starts if the counter is  *)
(* below retry_count, and otherwise the call is DONE(failed).              *)
C16_BackoffAfterEveryFailure == [][C16_Step]_vars

C16_LastBackoff ==
    \E c \in Calls :
        /\ frame[c].pc = "sleep"
        /\ frame[c].retry_count = 2
        /\ frame[c].retry_attempt = frame[c].retry_count
        /\ frame[c].delays = <<60, 120>>

----------------------------------------------------------------------------
(* Model calls in flight *)

(* the attempts of call c that still have a model call running *)
RunningAttempts(c) ==
    abandoned[c] \cup
    (IF frame[c].pc = "requery" \/ (frame[c].pc = "gather" /\ Unfinished(frame[c]))
     THEN {frame[c].attempts} ELSE {})

(* C17: retries are strictly sequential.  When an attempt of a call has    *)
(* model calls issued, no model call issued by an earlier attempt of the   *)
(* same call is still running, also when that attempt failed because one   *)
(* of its two primary calls raised.                                        *)
C17_SequentialAttempts ==
    \A c \in Calls :
        InAttempt(frame[c]) => RunningAttempts(c) \subseteq {frame[c].attempts}

----------------------------------------------------------------------------
(* The join of the two primary model calls *)

BothCompleted(f) == \A i \in 1 .. 2 : f.responses[i].st = "done"

(* while the calls of an attempt are gathered, both have been issued and   *)
(* nothing has been parsed, queried again or selected                      *)
C18_Joined ==
    \A c \in Calls :
        frame[c].pc = "gather" =>
            /\ \A i \in 1 .. 2 : frame[c].responses[i].st # "none"
            /\ frame[c].attempt_calls = 2
            /\ frame[c].result1 = None
            /\ frame[c].result2 = None
            /\ frame[c].requeried = 0
            /\ frame[c].result = None

C18_Step ==
    \A c \in Calls :
        LET f == frame[c]
            g == frame'[c]
        IN  /\ (f.pc # "gather" /\ g.pc = "gather") =>
                 \A i \in 1 .. 2 : g.responses[i].st = "running"
            /\ (\/ f.result1 = None /\ g.result1 # None
                \/ f.result2 = None /\ g.result2 # None
                \/ f.pc = "gather" /\ g.pc \in {"requery", "returned"}
                \/ f.pc = "gather" /\ g.last_error = Some(UnclearMatch)
                                   /\ g.retry_attempt # f.retry_attempt) =>
                 BothCompleted(f)

(* C18: in every attempt the two primary model calls are both issued       *)
(* before either is awaited, so that they are in flight together and may   *)
(* complete in either order, and no response is parsed and no              *)
(* reconciliation decision taken until both calls have completed.          *)
C18_DualCallJoin == [] C18_Joined /\ [][C18_Step]_vars

C18_SecondCompletedFirst ==
    \E c \in Calls :
        /\ frame[c].pc = "gather"
        /\ frame[c].responses[1].st = "running"
        /\ frame[c].responses[2].st = "done"
        /\ frame[c].result2 = None

----------------------------------------------------------------------------
(* Several verify_price calls on one event loop, sharing the cache.  The   *)
(* cache functions are taken statement by statement.  A coroutine runs     *)
(* until it reaches an await or ends; the awaits of a call (gather,        *)
(* requery, backoff sleep) touch no cache and are one suspension here.     *)

NumCallers == 2

Callers == 1 .. NumCallers

LoopKeys == {generate_cache_key(u, Plan(name, None)) :
                u \in ProviderUrls, name \in {"p", "q"}}

NewCoroutine ==
    [pc |-> "idle", cache_key |-> "", entry |-> None, age_seconds |-> 0,
     result |-> None, timestamp |-> 0]

(* the call has returned (or raised): its locals are gone, what is kept   *)
(* is how it ended                                                         *)
Ended(co, how) ==
    [NewCoroutine EXCEPT !.pc = "ended", !.cache_key = co.cache_key,
                         !.entry = Some(how)]

(* what the awaited models may answer: a result that qualifies for the     *)
(* cache and one that does not                                             *)
LoopOutputs == {Answer(Num(89), 90, TRUE), Answer(Num(89), 80, TRUE)}

(* variant: the loop may also switch coroutines before the del statement *)
SuspensionPoints_preemptive == {"await", "evict"}

(* where a coroutine gives the event loop back: await asyncio.gather(...), *)
(* await asyncio.to_thread(...), await asyncio.sleep(delay)                *)
SuspensionPoints == {"await"}

Parked(pc) == pc \in SuspensionPoints \cup {"idle", "ended", "failed"}

(* coroutine c may take a step: it is the one running, or the loop is free *)
CanRun(c) == direct.fn = "loop" /\ direct.running \in {0, c}

(* coroutine c has executed a statement and is now the record co *)
Stepped(c, co) ==
    [direct EXCEPT !.co[c] = co,
                   !.running = IF Parked(co.pc) THEN 0 ELSE c]

InitLoop ==
    /\ Idle
    /\ direct = [fn |-> "loop", running |-> 0,
                 co |-> [c \in Callers |-> NewCoroutine]]

(* verify_price is called: up to the call of _get_cached_result *)
LoopCall(c, cache_key) ==
    /\ CanRun(c)
    /\ direct.co[c].pc \in {"idle", "ended"}
    /\ direct' = Stepped(c, [NewCoroutine EXCEPT !.pc = "test",
                                                 !.cache_key = cache_key])
    /\ UNCHANGED <<verification_cache, now, frame, abandoned>>

(* if cache_key in self._verification_cache *)
PresenceTest(c) ==
    LET co == direct.co[c] IN
    /\ CanRun(c)
    /\ co.pc = "test"
    /\ direct' = Stepped(c, [co EXCEPT !.pc =
                    IF co.cache_key \in DOMAIN verification_cache
                    THEN "read" ELSE "miss"])
    /\ UNCHANGED <<verification_cache, now, frame, abandoned>>

(* result, timestamp = self._verification_cache[cache_key]; age_seconds *)
ReadEntry(c) ==
    LET co == direct.co[c] IN
    /\ CanRun(c)
    /\ co.pc = "read"
    /\ direct' = Stepped(c,
          IF co.cache_key \in DOMAIN verification_cache
          THEN [co EXCEPT !.pc = "expiry",
                          !.entry = Some(verification_cache[co.cache_key]),
                          !.age_seconds = now - verification_cache[co.cache_key][2]]
          ELSE [co EXCEPT !.pc = "failed"])
    /\ UNCHANGED <<verification_cache, now, frame, abandoned>>

(* if age_seconds < self.cache_timeout: return result *)
ExpiryTest(c) ==
    LET co == direct.co[c] IN
    /\ CanRun(c)
    /\ co.pc = "expiry"
    /\ direct' = Stepped(c,
          IF co.age_seconds < cache_timeout
          THEN Ended(co, "cache_hit")
          ELSE [co EXCEPT !.pc = "evict"])
    /\ UNCHANGED <<verification_cache, now, frame, abandoned>>

(* del self._verification_cache[cache_key]: KeyError if the key is gone *)
Evict(c) ==
    LET co == direct.co[c] IN
    /\ CanRun(c)
    /\ co.pc = "evict"
    /\ IF co.cache_key \in DOMAIN verification_cache
       THEN /\ verification_cache' = Remove(verification_cache, co.cache_key)
            /\ direct' = Stepped(c, [co EXCEPT !.pc = "miss"])
       ELSE /\ UNCHANGED verification_cache
            /\ direct' = Stepped(c, [co EXCEPT !.pc = "failed"])
    /\ UNCHANGED <<now, frame, abandoned>>

(* return None: the call goes on to its first attempt and awaits *)
LookupMisses(c) ==
    LET co == direct.co[c] IN
    /\ CanRun(c)
    /\ co.pc = "miss"
    /\ direct' = Stepped(c, [co EXCEPT !.pc = "await"])
    /\ UNCHANGED <<verification_cache, now, frame, abandoned>>

(* the awaited calls have answered and a result is selected: it is stored  *)
(* if it qualifies, and returned                                           *)
Resume(c, raw) ==
    LET co == direct.co[c]
        result == parse_verification_response(raw, now)
    IN  /\ CanRun(c)
        /\ co.pc = "await"
        /\ direct' = Stepped(c, IF ShouldCache(result)
                                 THEN [co EXCEPT !.result = Some(result),
                                                 !.pc = "stamp"]
                                 ELSE Ended(co, "not_stored"))
        /\ UNCHANGED <<verification_cache, now, frame, abandoned>>

(* timestamp = datetime.now() *)
Stamp(c) ==
    LET co == direct.co[c] IN
    /\ CanRun(c)
    /\ co.pc = "stamp"
    /\ direct' = Stepped(c, [co EXCEPT !.pc = "assign", !.timestamp = now])
    /\ UNCHANGED <<verification_cache, now, frame, abandoned>>

(* self._verification_cache[cache_key] = (result, timestamp); return *)
Assign(c) ==
    LET co == direct.co[c] IN
    /\ CanRun(c)
    /\ co.pc = "assign"
    /\ verification_cache' = cache_result(verification_cache, co.cache_key,
                                          Val(co.result), co.timestamp)
    /\ direct' = Stepped(c, Ended(co, "stored"))
    /\ UNCHANGED <<now, frame, abandoned>>

LoopTick ==
    /\ direct.fn = "loop"
    /\ now + TickStep <= MaxTime
    /\ now' = now + TickStep
    /\ UNCHANGED <<verification_cache, frame, abandoned, direct>>

NextLoop ==
    \/ \E c \in Callers, k \in LoopKeys : LoopCall(c, k)
    \/ \E c \in Callers : PresenceTest(c)
    \/ \E c \in Callers : ReadEntry(c)
    \/ \E c \in Callers : ExpiryTest(c)
    \/ \E c \in Callers : Evict(c)
    \/ \E c \in Callers : LookupMisses(c)
    \/ \E c \in Callers, raw \in LoopOutputs : Resume(c, raw)
    \/ \E c \in Callers : Stamp(c)
    \/ \E c \in Callers : Assign(c)
    \/ LoopTick

SpecLoop == InitLoop /\ [][NextLoop]_vars

InCacheCode(co) ==
    co.pc \in {"test", "read", "expiry", "evict", "miss", "stamp", "assign"}

(* no lookup has failed, at most one call is inside a cache function, the  *)
(* entry a lookup has read is still the entry of its key, and the table    *)
(* holds one (record, timestamp) pair per key                              *)
C19_Consistent ==
    direct.fn = "loop" =>
        /\ \A c \in Callers : direct.co[c].pc # "failed"
        /\ \A c \in Callers, d \in Callers :
             (InCacheCode(direct.co[c]) /\ InCacheCode(direct.co[d])) => c = d
        /\ \A c \in Callers :
             direct.co[c].pc \in {"expiry", "evict"} =>
                 /\ direct.co[c].cache_key \in DOMAIN verification_cache
                 /\ direct.co[c].entry =
                        Some(verification_cache[direct.co[c].cache_key])
        /\ \A k \in DOMAIN verification_cache :
             /\ k \in LoopKeys
             /\ Len(verification_cache[k]) = 2
             /\ Qualifies(verification_cache[k][1])
             /\ verification_cache[k][2] \in 0 .. now

(* while a call is inside a cache function no other call takes a step and  *)
(* nobody else changes the table                                           *)
C19_LoopStep ==
    \A c \in Callers :
        (direct.fn = "loop" /\ InCacheCode(direct.co[c])) =>
            /\ \A d \in Callers \ {c} : direct'.co[d] = direct.co[d]
            /\ verification_cache' # verification_cache =>
                 direct.co[c].pc \in {"evict", "assign"}

(* C19: for any number of in-flight verify_price calls, a cache lookup     *)
(* (presence test, expiry test, eviction) and a cache store each run       *)
(* without an interleaved step of another call; no interleaving makes a    *)
(* lookup fail or leaves the table holding anything other than one         *)
(* (record, timestamp) pair per key.                                       *)
C19_CacheAtomic == [] C19_Consistent /\ [][C19_LoopStep]_vars

C19_EvictingWhileInFlight ==
    /\ direct.fn = "loop"
    /\ \E c \in Callers, d \in Callers :
          /\ c # d
          /\ direct.co[c].pc = "evict"
          /\ direct.co[d].pc = "await"
          /\ direct.co[d].cache_key = direct.co[c].cache_key

----------------------------------------------------------------------------
(* The detail cleaner on its own and inside the parser *)

InitDetails == InitClean \/ InitParse

NextDetails == Clean \/ CleanAgain \/ Parse

SpecDetails == InitDetails /\ [][NextDetails]_vars

CleanShape(str) ==
    /\ Len(str) <= 50
    /\ \A i \in 1 .. Len(str) - 1 :
         ~(IsSpecial(str[i]) /\ IsSpecial(str[i + 1]))

ParsedOk(d) ==
    /\ Parsed_(d)
    /\ Val(d.out).kind = "return"
    /\ Val(Val(d.out).value).error_type \in {None, Some("LOW_CONFIDENCE")}

(* C21: for every input the cleaner's output is at most 50 characters      *)
(* long and has no two adjacent special characters, and every plan_details *)
(* of a successfully parsed record has this shape.                         *)
C21_CleanerShape ==
    /\ (direct.fn = "clean" /\ direct.out # None) => CleanShape(Val(direct.out))
    /\ (direct.fn = "clean" /\ direct.again # None) =>
            CleanShape(Val(direct.again))
    /\ ParsedOk(direct) =>
            /\ Val(Val(direct.out).value).plan_details # None
            /\ CleanShape(Val(Val(Val(direct.out).value).plan_details))

C21_LongDetailsParsed ==
    /\ ParsedOk(direct)
    /\ direct.arg.plan_details = Text(Pad(49) \o <<"!", "?", "a">>)
    /\ Val(Val(direct.out).value).plan_details = Some(Pad(49) \o <<"!">>)

----------------------------------------------------------------------------
(* Classification of the parser's failures *)

(* the record the parser returned *)
Record(d) == Val(Val(d.out).value)

MissingKeys(raw) == required_fields \ raw.keys

(* C22: raw text that is not valid JSON yields error_type = INVALID_JSON    *)
(* and verified = false; a JSON object lacking any of price, verified,      *)
(* confidence, match_criteria yields error_type = VALIDATION_ERROR with a   *)
(* message naming every missing key.                                        *)
C22_Classification ==
    Parsed_(direct) =>
        /\ direct.arg.form = "text" =>
             /\ Record(direct).error_type = Some("INVALID_JSON")
             /\ Record(direct).verified = FALSE
        /\ (direct.arg.form = "object" /\ MissingKeys(direct.arg) # {}) =>
             /\ Record(direct).error_type = Some("VALIDATION_ERROR")
             /\ Record(direct).error # None
             /\ Val(Record(direct).error).detail = MissingKeys(direct.arg)

(* a present value float() does not accept *)
NotAFloat(x) == x.t \in {"str", "list"}

(* a failure that is neither malformed JSON nor a missing key *)
OtherFailure(raw) ==
    \/ raw.form \in {"nonobject", "badfence"}
    \/ /\ raw.form = "object"
       /\ MissingKeys(raw) = {}
       /\ \/ NotAFloat(raw.confidence)
          \/ raw.confidence.t = "null"
          \/ NotAFloat(raw.price)
          \/ raw.plan_details.t = "num" /\ raw.plan_details.v # 0

(* C23: any failure during parsing other than malformed JSON and missing    *)
(* required keys yields error_type = PROCESSING_ERROR with an error message *)
(* that includes the original failure text.                                 *)
C23_ProcessingError ==
    (Parsed_(direct) /\ OtherFailure(direct.arg)) =>
        /\ Record(direct).error_type = Some("PROCESSING_ERROR")
        /\ Record(direct).error # None
        /\ ParseBody(direct.arg, now).text.text
               \in Val(Record(direct).error).detail

ParseErrors == {Some("INVALID_JSON"), Some("VALIDATION_ERROR"),
                Some("PROCESSING_ERROR")}

(* C24 as stated: every record with an error_type has confidence 0 *)
C24_ErrorRecordsZeroed ==
    (Parsed_(direct) /\ Record(direct).error_type # None) =>
        /\ Record(direct).verified = FALSE
        /\ Record(direct).confidence_score = 0

(* C24: a record returned by the parser with error_type INVALID_JSON,       *)
(* VALIDATION_ERROR or PROCESSING_ERROR has verified = false and            *)
(* confidence_score = 0.0; one with LOW_CONFIDENCE has verified = false and *)
(* keeps the confidence the model reported, which is below 0.8.             *)
C24_ErrorRecords ==
    Parsed_(direct) =>
        /\ Record(direct).error_type \in ParseErrors =>
             /\ Record(direct).verified = FALSE
             /\ Record(direct).confidence_score = 0
        /\ Record(direct).error_type = Some("LOW_CONFIDENCE") =>
             /\ Record(direct).verified = FALSE
             /\ Record(direct).confidence_score = direct.arg.confidence.v
             /\ Record(direct).confidence_score < 80
        /\ Record(direct).error_type \in
               ParseErrors \cup {None, Some("LOW_CONFIDENCE")}

C24_Demoted ==
    /\ Parsed_(direct)
    /\ Record(direct).error_type = Some("LOW_CONFIDENCE")
    /\ Record(direct).confidence_score = 70
    /\ direct.arg.verified = TRUE

----------------------------------------------------------------------------
(* C25: whenever verify_price returns a record with error_type =            *)
(* VERIFICATION_FAILED, for every retry_count >= 0, the record has          *)
(* verified = false, confidence_score = 0.0, current_price = null and a     *)
(* non-null error carrying the failure text of the last attempt.            *)
C25_TerminalRecord ==
    \A c \in Calls :
        TerminalFailure(frame[c]) =>
            LET r == Val(frame[c].outcome.value)
            IN  /\ r.verified = FALSE
                /\ r.confidence_score = 0
                /\ r.current_price = None
                /\ r.error # None
                /\ r.error \in {Some(ModelError), Some(UnclearMatch)}

(* C26: every record returned by the parser, returned by verify_price or    *)
(* held in the cache has a confidence_score within [0.0, 1.0], whatever     *)
(* confidence the model reported.                                           *)
C26_ConfidenceRange ==
    \A r \in AllRecords :
        IsNumber(r.confidence_score) =>
            (0 <= r.confidence_score /\ r.confidence_score <= 100)

----------------------------------------------------------------------------
(* Termination.  Every model call handed to a worker thread ends, by        *)
(* returning or by raising; the event loop resumes a coroutine whose await  *)
(* is ready; every backoff sleep ends.                                      *)

ModelEnds(c, i) ==
    \/ \E raw \in ModelOutputs : ModelReturns(c, i, raw)
    \/ ModelRaises(c, i)

RequeryEnds(c) ==
    \/ \E raw \in ModelOutputs : RequeryReturns(c, raw)
    \/ RequeryRaises(c)

(* a model call ends, a failed gather resumes, a sleep ends *)
Waits(c) ==
    \/ \E i \in 1 .. 2 : ModelEnds(c, i)
    \/ GatherRaises(c)
    \/ SleepEnds(c)

(* the conditions under which GatherCompletes(c) and RequeryEnds(c) are    *)
(* enabled                                                                 *)
GatherReady(c) ==
    frame[c].pc = "gather" /\ \A i \in 1 .. 2 : frame[c].responses[i].st = "done"

RequeryPending(c) == frame[c].pc = "requery"

(* weak fairness of the pending steps of a call; for GatherCompletes and   *)
(* RequeryEnds it is written out with the enabling condition               *)
Fairness ==
    \A c \in {1} :
        /\ WF_vars(Waits(c))
        /\ ([]<>(~GatherReady(c)) \/ []<><<GatherCompletes(c)>>_vars)
        /\ ([]<>(~RequeryPending(c)) \/ []<><<RequeryEnds(c)>>_vars)

FairSpec == Spec /\ Fairness

C27_Bounded ==
    \A c \in Calls :
        /\ frame[c].retry_attempt <= frame[c].retry_count
        /\ frame[c].attempts <= frame[c].retry_count

InFlight(f) == f.pc \in {"gather", "requery", "sleep"}

(* C27: if every model call eventually returns or raises and every backoff  *)
(* delay elapses, every verify_price call eventually returns, after at most *)
(* retry_count attempts; the attempt counter never exceeds retry_count.     *)
C27_Termination ==
    /\ [] C27_Bounded
    /\ \A c \in {1} : InFlight(frame[c]) ~> (frame[c].pc = "returned")

C27_ReturnedOnLastAttempt ==
    \E c \in Calls :
        /\ frame[c].pc = "returned"
        /\ frame[c].retry_count = 2
        /\ frame[c].attempts = 2
        /\ frame[c].retry_attempt = 1
        /\ frame[c].result # None

----------------------------------------------------------------------------
(* Model calls of one verify_price call *)

CallsOf(f, kind, k) ==
    Cardinality({i \in DOMAIN f.events :
                    f.events[i].e = kind /\ f.events[i].attempt = k})

(* C28: each attempt issues exactly two primary model calls and at most    *)
(* one re-query, which happens only on the disagreement path and is never  *)
(* itself re-queried; so a call issues at most 3 * retry_count model       *)
(* calls, and none on a cache hit.                                         *)
C28_ModelCallBudget ==
    \A c \in Calls :
        LET f == frame[c] IN
        /\ \A k \in 1 .. f.attempts :
             /\ CallsOf(f, "primary_call", k) = 2
             /\ CallsOf(f, "requery_call", k) <= 1
        /\ f.model_calls =
             Cardinality({i \in DOMAIN f.events : f.events[i].e \in ModelCallKinds})
        /\ f.model_calls <= 3 * f.retry_count
        /\ f.attempt_calls <= 3
        /\ f.requeried # 0 => Disagreed(f)
        /\ f.pc = "requery" => CallsOf(f, "requery_call", f.attempts) = 1
        /\ f.cache_event = "cache_hit" => f.model_calls = 0

C28_BudgetSpent ==
    \E c \in Calls :
        /\ frame[c].pc = "returned"
        /\ frame[c].retry_count = 2
        /\ frame[c].model_calls = 6
        /\ frame[c].result # None

----------------------------------------------------------------------------
(* promo_details of parsed records *)

NoPromoKey(raw) == raw.form = "object" => raw.promo = JNull

(* C29: for every model output that carries no promo key (the requested    *)
(* shape names the field promotion_details), the record the parser returns *)
(* has promo_details = null, whatever promotion_details holds.             *)
C29_PromoAbsent ==
    (Parsed_(direct) /\ NoPromoKey(direct.arg))
        => Record(direct).promo_details = None

C29_PromotionDropped ==
    /\ ParsedOk(direct)
    /\ MissingKeys(direct.arg) = {}
    /\ direct.arg.promotion_details = Text(<<"a">>)
    /\ direct.arg.promo = JNull
    /\ Record(direct).error_type = None
    /\ Record(direct).promo_details = None

----------------------------------------------------------------------------
(* What consumes the retry budget *)

Selects(f) == Agreed(f) \/ f.retry_result # None

FailedToParse(o) == Val(o).error_type \in ParseErrors

ExceptionHandled(f, g) ==
    /\ g.retry_attempt = f.retry_attempt + 1
    /\ g.pc = "sleep"
    /\ g.result = None
    /\ g.last_error \in {Some(ModelError), Some(UnclearMatch)}
    /\ g.last_error = Some(UnclearMatch) =>
           Disagreed(g) /\ Conf(g.result1) = Conf(g.result2)

(* C30: an attempt in which reconciliation selects a record ends the call  *)
(* at once with that record, without backoff or further attempt, whatever  *)
(* its verified flag and error_type; when both outputs fail to parse both  *)
(* prices are null, no re-query is made and model A's error record is      *)
(* returned after the two primary calls; retry_attempt moves only in a     *)
(* step that handles an exception.                                         *)
C30_OnlyExceptionsRetry ==
    /\ [] \A c \in Calls :
             LET f == frame[c] IN
             /\ Selects(f) =>
                  /\ f.pc = "returned"
                  /\ f.result # None
                  /\ f.outcome = Returns(Val(f.result))
             /\ (Parsed(f) /\ FailedToParse(f.result1) /\ FailedToParse(f.result2)) =>
                  /\ Price(f.result1) = None /\ Price(f.result2) = None
                  /\ f.requeried = 0
                  /\ f.attempt_calls = 2
                  /\ f.result = f.result1
             /\ Len(f.delays) = f.retry_attempt
    /\ [][\A c \in Calls :
             /\ frame'[c].retry_attempt > frame[c].retry_attempt =>
                  ExceptionHandled(frame[c], frame'[c])
             /\ (frame[c].result = None /\ frame'[c].result # None) =>
                  /\ frame'[c].pc = "returned"
                  /\ frame'[c].attempts = frame[c].attempts
                  /\ frame'[c].retry_attempt = frame[c].retry_attempt
                  /\ frame'[c].delays = frame[c].delays]_vars

C30_BothUnparseableReturned ==
    \E c \in Calls :
        LET f == frame[c] IN
        /\ f.pc = "returned"
        /\ Parsed(f)
        /\ FailedToParse(f.result1) /\ FailedToParse(f.result2)
        /\ Val(f.result1).error # Val(f.result2).error
        /\ f.result = f.result1
        /\ ~Val(f.result).verified
        /\ f.model_calls = 2
        /\ f.retry_attempt = 0
        /\ f.delays = <<>>

----------------------------------------------------------------------------
(* verify_price calls for two cache keys, one after the other, with three  *)
(* model answers: two that qualify for the cache (with different prices    *)
(* and confidences, so that a re-query happens) and one that does not.     *)

KeyPlans == {Plan("p", None), Plan("q", Some(89))}

KeyOutputs ==
    {Answer(Num(89), 90, TRUE), Answer(Num(95), 85, TRUE),
     Answer(Num(89), 80, TRUE)}

NextKeys ==
    \/ \E c \in Calls, u \in ProviderUrls, p \in KeyPlans,
          n \in 0 .. MaxRetryCount : Call(c, u, p, n)
    \/ \E c \in Calls, i \in 1 .. 2, raw \in KeyOutputs : ModelReturns(c, i, raw)
    \/ \E c \in Calls, i \in 1 .. 2 : ModelRaises(c, i)
    \/ \E c \in Calls : GatherCompletes(c)
    \/ \E c \in Calls : GatherRaises(c)
    \/ \E c \in Calls, raw \in KeyOutputs : RequeryReturns(c, raw)
    \/ \E c \in Calls : RequeryRaises(c)
    \/ \E c \in Calls : SleepEnds(c)
    \/ \E c \in Calls, k \in 1 .. MaxRetryCount : AbandonedEnds(c, k)
    \/ Tick

SpecKeys == Init /\ [][NextKeys]_vars

(* the step is the start of a call of c (cache lookup included) *)
Called(c) ==
    /\ frame[c].pc \in {"idle", "returned", "raised"}
    /\ frame'[c] # frame[c]

(* the step ends a call of c after at least one await *)
Ends(c) ==
    /\ frame[c].pc \in {"gather", "requery", "sleep"}
    /\ frame'[c].pc = "returned"

Selected(o) == o # None /\ Qualifies(Val(o))

OtherKeysKept(k) ==
    \A j \in (DOMAIN verification_cache \cup DOMAIN verification_cache') \ {k} :
        /\ j \in DOMAIN verification_cache
        /\ j \in DOMAIN verification_cache'
        /\ verification_cache'[j] = verification_cache[j]

EvictsExpired(k) ==
    /\ k \in DOMAIN verification_cache
    /\ now - verification_cache[k][2] >= cache_timeout
    /\ k \notin DOMAIN verification_cache'

C31_Step ==
    /\ verification_cache' # verification_cache =>
         \E c \in Calls :
            /\ OtherKeysKept(frame'[c].cache_key)
            /\ \/ Called(c) /\ EvictsExpired(frame'[c].cache_key)
               \/ Ends(c) /\ Selected(frame'[c].result)
    /\ \A c \in Calls :
         (Ends(c) /\ ~Selected(frame'[c].result)) =>
             verification_cache' = verification_cache

(* C31: a verify_price call with cache key k never adds, replaces or       *)
(* removes the entry of another key; the cache changes only when a call    *)
(* evicts its own key's expired entry at its lookup or ends with a         *)
(* qualifying record, so a call that ends with a non-qualifying record or  *)
(* with VERIFICATION_FAILED changes nothing but that eviction.             *)
C31_CacheFrame == [][C31_Step]_vars

C31_FailedAfterEviction ==
    \E c \in Calls :
        LET f == frame[c] IN
        /\ f.pc = "returned"
        /\ f.cache_event = "cache_expired"
        /\ TerminalFailure(f)
        /\ f.cache_key \notin DOMAIN verification_cache
        /\ DOMAIN verification_cache # {}

----------------------------------------------------------------------------
(* Two verify_price calls in flight on one service object for the same     *)
(* cache key: the calls of Spec, interleaved at their awaits.  The two     *)
(* model answers both qualify for the cache and differ in price and        *)
(* confidence.                                                             *)

SharedCallers == {1, 2}

SharedPlan == Plan("p", None)

SharedRetryCounts == {1, 2}

SharedOutputs == {Answer(Num(89), 90, TRUE), Answer(Num(95), 85, TRUE)}

InitShared ==
    /\ verification_cache = <<>>
    /\ now = 0
    /\ frame = [c \in SharedCallers |-> NewFrame("u", SharedPlan, 0)]
    /\ abandoned = [c \in SharedCallers |-> {}]
    /\ direct = NoDirect

NextShared ==
    \/ \E c \in Calls, u \in ProviderUrls, n \in SharedRetryCounts :
          Call(c, u, SharedPlan, n)
    \/ \E c \in Calls, i \in 1 .. 2, raw \in SharedOutputs : ModelReturns(c, i, raw)
    \/ \E c \in Calls, i \in 1 .. 2 : ModelRaises(c, i)
    \/ \E c \in Calls : GatherCompletes(c)
    \/ \E c \in Calls : GatherRaises(c)
    \/ \E c \in Calls, raw \in SharedOutputs : RequeryReturns(c, raw)
    \/ \E c \in Calls : RequeryRaises(c)
    \/ \E c \in Calls : SleepEnds(c)
    \/ \E c \in Calls, k \in SharedRetryCounts : AbandonedEnds(c, k)
    \/ Tick

SpecShared == InitShared /\ [][NextShared]_vars

Started(f) == f.pc # "idle"

LookedUpOnce(f) ==
    /\ f.events[1].e = "cache_check"
    /\ Cardinality({i \in DOMAIN f.events : f.events[i].e = "cache_check"}) = 1

C32_State ==
    \A c \in Calls :
        LET f == frame[c] IN
        /\ Started(f) => LookedUpOnce(f)
        /\ InFlight(f) =>
             /\ f.cached_result = None
             /\ f.model_calls >= 2 * f.attempts
             /\ f.attempts >= 1

C32_Step ==
    \A c \in Calls :
        /\ ~Called(c) =>
             /\ frame'[c].cached_result = frame[c].cached_result
             /\ frame'[c].cache_event = frame[c].cache_event
        /\ (frame[c].pc = "sleep" /\ frame'[c].pc # "sleep") =>
             IF frame[c].retry_attempt < frame[c].retry_count
             THEN /\ frame'[c].pc = "gather"
                  /\ frame'[c].model_calls = frame[c].model_calls + 2
             ELSE TerminalFailure(frame'[c])
        /\ (Ends(c) /\ Selected(frame'[c].result)) =>
             verification_cache'[frame[c].cache_key] =
                 <<Val(frame'[c].result), now'>>

(* C32: the cache is consulted once per call, before the first attempt,    *)
(* and not again when an attempt is retried; calls for one key that have   *)
(* both passed their lookup each issue their own model calls; and a call   *)
(* that ends with a qualifying record puts that record and the current     *)
(* time in the table whatever another call has stored there before.        *)
C32_NoCoalescing == [] C32_State /\ [][C32_Step]_vars

C32_LastStoreWins ==
    /\ \A c \in Calls :
          /\ frame[c].pc = "returned"
          /\ frame[c].cache_event = "cache_miss"
          /\ frame[c].cache_writes = 1
          /\ frame[c].cache_key = frame[1].cache_key
    /\ frame[1].result # frame[2].result
    /\ frame[1].attempts = 2
    /\ verification_cache[frame[1].cache_key][1] = Val(frame[1].result)
    /\ Val(frame[2].result).verification_date
           < Val(frame[1].result).verification_date

----------------------------------------------------------------------------
(* _generate_cache_key on pairs of requests.  URLs and plan names may hold *)
(* the character the key is joined with.                                   *)

PlanWith(name, download_speed, upload_speed, price) ==
    [providers_plan_name |-> name, download_speed |-> download_speed,
     upload_speed |-> upload_speed, price |-> price]

Request(provider_url, plan_details) ==
    [provider_url |-> provider_url, plan_details |-> plan_details]

KeyRequests ==
    {Request(u, PlanWith(name, down, "20", price)) :
        u \in {"u", "u_p"}, name \in {"p", "p_p"},
        down \in {"100", "50"}, price \in {None, Some(89)}}

KeyFields(r) ==
    <<r.provider_url, r.plan_details.providers_plan_name,
      r.plan_details.download_speed, r.plan_details.upload_speed>>

InitKey ==
    /\ Idle
    /\ \E r1 \in KeyRequests, r2 \in KeyRequests :
          direct = [fn |-> "key", arg |-> <<r1, r2>>, out |-> None]

GenerateKeys ==
    /\ direct.fn = "key"
    /\ direct.out = None
    /\ direct' = [direct EXCEPT !.out = Some(
           <<generate_cache_key(direct.arg[1].provider_url,
                                direct.arg[1].plan_details),
             generate_cache_key(direct.arg[2].provider_url,
                                direct.arg[2].plan_details)>>)]
    /\ UNCHANGED <<verification_cache, now, frame, abandoned>>

NextKey == GenerateKeys

SpecKey == InitKey /\ [][NextKey]_vars

KeysOf(d) == Val(d.out)

(* C33: two requests get the same cache key exactly when they are equal in *)
(* provider URL, plan name, download speed and upload speed; the           *)
(* advertised price plays no part.                                         *)
C33_KeySeparation ==
    (direct.fn = "key" /\ direct.out # None) =>
        ((KeysOf(direct)[1] = KeysOf(direct)[2])
            <=> (KeyFields(direct.arg[1]) = KeyFields(direct.arg[2])))

====
